---------------------------- MODULE Spec2Model ----------------------------
(***************************************************************************)
(* Model of the real-estate HTTP API (src/main.py, src/schemas.py).        *)
(*                                                                         *)
(* Python strings that the code searches with $regex, truncates or checks  *)
(* for e-mail syntax are sequences of one-character strings; other strings *)
(* are TLA+ strings.  A Python None (an Optional field left out) is a      *)
(* record field that is absent from the record's DOMAIN.  Floats are       *)
(* integers (coordinates in units of 1e-4 degree).                         *)
(***************************************************************************)
EXTENDS Integers, Sequences, FiniteSets, TLC

\* ------------------------------------------------------------ bounds ----
\* Documents the modelled requests insert on top of the initial store.
MaxNewDocuments == 2
\* The same for the property-only specifications.
MaxNewListings == 3
MaxSeedInserts == 4
\* Longest exception text the store raises; collections the store may hold.
MaxErrLen == 52
MaxColls == 12

\* ----------------------------------------------------- program constants
SearchLimit == 50
BrokerLimit == 50
ErrTextLimit == 50
OuterErrTextLimit == 50
CollectionsLimit == 10
\* Ratings are in tenths: le=5 is 50, the default 4.8 is 48.
RatingMaxTenths == 50
RatingDefaultTenths == 48

\* ----------------------------------------------------------- strings ----
UpperCase == <<"A", "B", "C", "D", "E", "F", "G", "H", "I", "J", "K", "L", "M",
               "N", "O", "P", "Q", "R", "S", "T", "U", "V", "W", "X", "Y", "Z">>
LowerCase == <<"a", "b", "c", "d", "e", "f", "g", "h", "i", "j", "k", "l", "m",
               "n", "o", "p", "q", "r", "s", "t", "u", "v", "w", "x", "y", "z">>
Digits == <<"0", "1", "2", "3", "4", "5", "6", "7", "8", "9">>

\* The "i" option of $regex: characters are compared with case folded.
Fold(ch) ==
    IF \E i \in 1..Len(UpperCase) : UpperCase[i] = ch
    THEN LowerCase[CHOOSE i \in 1..Len(UpperCase) : UpperCase[i] = ch]
    ELSE ch

\* text[:n]
Truncate(text, n) == SubSeq(text, 1, IF Len(text) < n THEN Len(text) ELSE n)

\* seq[:n] when limit is a number, the whole of seq when the limit is None.
NoLimit == -1
Take(seq, limit) == IF limit = NoLimit THEN seq ELSE Truncate(seq, limit)

\* Plain, case-insensitive containment (the meaning of "contains").
ContainsIgnoreCase(text, term) ==
    \E i \in 0..(Len(text) - Len(term)) :
        \A j \in 1..Len(term) : Fold(text[i + j]) = Fold(term[j])

\* {"$regex": pattern, "$options": "i"} applied to a string field: the
\* pattern is searched for anywhere in the text.  The patterns of the model
\* are made of literal characters and of ".", which stands for any character.
RegexPatternMatchesAt(pattern, text, i) ==
    \A j \in 1..Len(pattern) :
        \/ pattern[j] = "."
        \/ Fold(text[i + j]) = Fold(pattern[j])

RegexSearchIgnoreCase(pattern, text) ==
    \E i \in 0..(Len(text) - Len(pattern)) : RegexPatternMatchesAt(pattern, text, i)

\* str(ObjectId): an injective rendering of the identifier as characters.
RECURSIVE ObjectIdStr(_)
ObjectIdStr(n) ==
    IF n < 10 THEN <<Digits[n + 1]>>
    ELSE ObjectIdStr(n \div 10) \o <<Digits[(n % 10) + 1]>>

\* ------------------------------------------------------------ schemas ---
Has(rec, f) == f \in DOMAIN rec

PropertyRequired ==
    {"title", "price", "city", "address", "bedrooms", "bathrooms", "area_sqft"}

\* Property(BaseModel): required fields and the ge=0 constraints.
ValidPropertyNoFloor(b) == PropertyRequired \subseteq DOMAIN b

ValidProperty(b) ==
    /\ PropertyRequired \subseteq DOMAIN b
    /\ b.price >= 0
    /\ b.bedrooms >= 0
    /\ b.bathrooms >= 0
    /\ b.area_sqft >= 0

\* The validated Property: default_factory=list for images and tags.
ParseProperty(b) ==
    (IF Has(b, "images") THEN <<>> ELSE "images" :> <<>>)
    @@ (IF Has(b, "tags") THEN <<>> ELSE "tags" :> <<>>)
    @@ b

\* EmailStr: one "@", a non-empty local part, a dotted domain.
ValidEmail(e) ==
    /\ Cardinality({i \in 1..Len(e) : e[i] = "@"}) = 1
    /\ LET at == CHOOSE i \in 1..Len(e) : e[i] = "@"
       IN  /\ at > 1
           /\ \E k \in (at + 2)..(Len(e) - 1) : e[k] = "."
           /\ e[at + 1] # "."

\* Broker(BaseModel)
ValidBroker(b) ==
    /\ Has(b, "name")
    /\ Has(b, "rating") => (b.rating >= 0 /\ b.rating <= RatingMaxTenths)
    /\ Has(b, "reviews_count") => b.reviews_count >= 0
    /\ Has(b, "email") => ValidEmail(b.email)

ParseBroker(b) ==
    (IF Has(b, "title") THEN <<>> ELSE "title" :> "Senior Broker")
    @@ (IF Has(b, "rating") THEN <<>> ELSE "rating" :> RatingDefaultTenths)
    @@ (IF Has(b, "reviews_count") THEN <<>> ELSE "reviews_count" :> 0)
    @@ (IF Has(b, "badges") THEN <<>> ELSE "badges" :> <<"Verified", "Top Rated">>)
    @@ b

BookingRequired ==
    {"property_id", "name", "email", "preferred_date", "preferred_time"}

\* Booking(BaseModel)
ValidBooking(b) ==
    /\ BookingRequired \subseteq DOMAIN b
    /\ ValidEmail(b.email)

\* --------------------------------------------------- request payloads ---
\* The two samples of seed_sample_properties.
Samples ==
    << [ title |-> <<"S", "k", "y", "l", "i", "n", "e", " ", "P", "e", "n", "t",
                     "h", "o", "u", "s", "e">>,
         description |-> <<"P", "a", "n", "o", "r", "a", "m", "i", "c", " ", "c",
                           "i", "t", "y", " ", "v", "i", "e", "w", "s", ",", " ",
                           "f", "l", "o", "o", "r", "-", "t", "o", "-", "c", "e",
                           "i", "l", "i", "n", "g", " ", "g", "l", "a", "s", "s",
                           ".">>,
         price |-> 1850000,
         city |-> <<"N", "e", "w", " ", "Y", "o", "r", "k">>,
         address |-> "350 5th Ave",
         bedrooms |-> 3,
         bathrooms |-> 3,
         area_sqft |-> 2200,
         images |-> <<>>,
         tags |-> << <<"l", "u", "x", "u", "r", "y">>,
                     <<"c", "i", "t", "y", "s", "c", "a", "p", "e">> >>,
         coords_lat |-> 407484,
         coords_lng |-> -739857,
         tour_3d_url |-> "https://my.matterport.com/show/?m=example" ],
       [ title |-> <<"M", "a", "r", "i", "n", "a", " ", "B", "a", "y", " ", "R",
                     "e", "s", "i", "d", "e", "n", "c", "e">>,
         description |-> <<"W", "a", "t", "e", "r", "f", "r", "o", "n", "t", " ",
                           "l", "i", "v", "i", "n", "g", " ", "w", "i", "t", "h",
                           " ", "p", "r", "i", "v", "a", "t", "e", " ", "b", "a",
                           "l", "c", "o", "n", "y", ".">>,
         price |-> 980000,
         city |-> <<"S", "a", "n", " ", "F", "r", "a", "n", "c", "i", "s", "c", "o">>,
         address |-> "1 Embarcadero",
         bedrooms |-> 2,
         bathrooms |-> 2,
         area_sqft |-> 1450,
         images |-> <<>>,
         tags |-> << <<"w", "a", "t", "e", "r", "f", "r", "o", "n", "t">>,
                     <<"p", "r", "e", "m", "i", "u", "m">> >>,
         coords_lat |-> 377955,
         coords_lng |-> -1223937 ] >>

\* Bodies a client may POST to /api/properties: valid ones (the floor 0 of
\* every ge=0 field included) and one per violated constraint.
Loft ==
    [ title |-> <<"L", "o", "f", "t">>, price |-> 0,
      city |-> <<"A", "u", "s", "t", "i", "n">>, address |-> "1 Main St",
      bedrooms |-> 0, bathrooms |-> 0, area_sqft |-> 0 ]

Villa ==
    [ title |-> <<"V", "i", "l", "l", "a">>,
      description |-> <<"N", "e", "a", "r", " ", "Y", "O", "R", "K">>,
      price |-> 1000000,
      city |-> <<"Y", "o", "r", "k">>, address |-> "2 High St",
      bedrooms |-> 3, bathrooms |-> 2, area_sqft |-> 1800,
      tags |-> << <<"L", "u", "x", "e">> >> ]

ValidPropertyBodies == {Loft, Villa}

InvalidPropertyBodies ==
    { [Loft EXCEPT !.price = -1],
      [Loft EXCEPT !.bedrooms = -1],
      [Loft EXCEPT !.bathrooms = -1],
      [Loft EXCEPT !.area_sqft = -1],
      [f \in DOMAIN Loft \ {"title"} |-> Loft[f]] }

PropertyBodies == ValidPropertyBodies \cup InvalidPropertyBodies

GoodEmail == <<"a", "d", "a", "@", "e", "x", ".", "c", "o">>
BadEmail == <<"a", "d", "a", ".", "e", "x">>

Agent == [ name |-> "Ada" ]

ValidBrokerBodies ==
    { Agent,
      [ name |-> "Bo", rating |-> 0, reviews_count |-> 0, email |-> GoodEmail ],
      [ name |-> "Cy", rating |-> RatingMaxTenths ] }

InvalidBrokerBodies ==
    { [ name |-> "Bo", rating |-> -1 ],
      [ name |-> "Bo", rating |-> RatingMaxTenths + 1 ],
      [ name |-> "Bo", reviews_count |-> -1 ],
      [ name |-> "Bo", email |-> BadEmail ],
      [ rating |-> 40 ] }

BrokerBodies == ValidBrokerBodies \cup InvalidBrokerBodies

\* A viewing of a property that need not exist, at one date and time.
Viewing ==
    [ property_id |-> "no-such-property", name |-> "Ada", email |-> GoodEmail,
      preferred_date |-> "2025-01-31", preferred_time |-> "14:30" ]

ValidBookingBodies == { Viewing, [Viewing EXCEPT !.name = "Bo"] }

InvalidBookingBodies ==
    { [Viewing EXCEPT !.email = BadEmail],
      [Viewing EXCEPT !.email = <<"@", "e", "x", ".", "c", "o">>],
      [f \in DOMAIN Viewing \ {"email"} |-> Viewing[f]],
      [f \in DOMAIN Viewing \ {"preferred_date"} |-> Viewing[f]] }

BookingBodies == ValidBookingBodies \cup InvalidBookingBodies

\* PropertyQuery bodies: every field is Optional and defaults to None.
NoFilter == <<>>

Queries ==
    { NoFilter,
      [ city |-> <<"n", "e", "w", " ", "y", "o", "r", "k">> ],
      [ city |-> <<"Y", "O", "R", "K">>, bedrooms |-> 3 ],
      [ city |-> <<>> ],
      [ city |-> <<"Y", ".", "r", "k">> ],
      [ q |-> <<"l", "u", "x">> ],
      [ q |-> <<"y", "o", "r", "k">>, min_price |-> 1000000 ],
      [ q |-> <<".">> ],
      [ min_price |-> 0 ],
      [ min_price |-> 1000000 ],
      [ max_price |-> 980000 ],
      [ max_price |-> 0 ],
      [ min_price |-> 980000, max_price |-> 1000000 ],
      [ bedrooms |-> 0 ],
      [ bedrooms |-> 3 ] }

\* -------------------------------------------------------------- state ---
Callers == {1, 2}

VARIABLES
    db,        \* the process-wide store handle: "absent" (None) or "connected"
    property,  \* the collections, in the store's natural (insertion) order
    broker,
    booking,
    nextId,    \* the identifier the store assigns to the next document
    pc,        \* where each caller of the sample-seed endpoint stands
    idx,       \* the sample each seeding caller inserts next
    resp,      \* the response last sent
    created,   \* history: the ids create_property returned, with their payloads
    seeded     \* history: the ids the seed endpoint inserted, and for which caller

vars == <<db, property, broker, booking, nextId, pc, idx, resp, created, seeded>>
store == <<property, broker, booking, nextId>>
seeders == <<pc, idx>>

\* ---------------------------------------------- document store adapter ---
FirstId == SearchLimit + BrokerLimit + 1
NewDocuments == nextId - FirstId

\* insert_one: the document gains the store-assigned _id.
StoredDocument(data, id) == ("_id" :> id) @@ data

\* The filter of a find(): the keys search_properties builds.
MatchesFilter(doc, filt) ==
    /\ Has(filt, "city") =>
          Has(doc, "city") /\ RegexSearchIgnoreCase(filt["city"], doc["city"])
    /\ Has(filt, "or") =>
          \/ Has(doc, "title") /\ RegexSearchIgnoreCase(filt["or"], doc["title"])
          \/ Has(doc, "description")
             /\ RegexSearchIgnoreCase(filt["or"], doc["description"])
          \/ Has(doc, "tags")
             /\ \E k \in 1..Len(doc["tags"]) :
                   RegexSearchIgnoreCase(filt["or"], doc["tags"][k])
    /\ Has(filt, "price") =>
          /\ Has(doc, "price")
          /\ DOMAIN filt["price"] # {}
          /\ Has(filt["price"], "gte") => doc["price"] >= filt["price"]["gte"]
          /\ Has(filt["price"], "lte") => doc["price"] <= filt["price"]["lte"]
    /\ Has(filt, "bedrooms") =>
          Has(doc, "bedrooms") /\ doc["bedrooms"] >= filt["bedrooms"]["gte"]

\* get_documents(collection, filter, limit)
get_documents(collection, filt, limit) ==
    LET Selected(doc) == MatchesFilter(doc, filt)
    IN  Take(SelectSeq(collection, Selected), limit)

\* ------------------------------------------------------ response shaping -
\* d["id"] = str(d.pop("_id", ""))
NormalizeKeepsInternalId(d) ==
    ("id" :> (IF Has(d, "_id") THEN ObjectIdStr(d["_id"]) ELSE <<>>)) @@ d

Normalize(d) ==
    [f \in (DOMAIN d \ {"_id"}) \cup {"id"} |->
        IF f = "id"
        THEN (IF Has(d, "_id") THEN ObjectIdStr(d["_id"]) ELSE <<>>)
        ELSE d[f]]

Items(docs) == [items |-> [i \in 1..Len(docs) |-> Normalize(docs[i])]]

Ok(op, body) == [op |-> op, status |-> 200, body |-> body]
ValidationError(op) == [op |-> op, status |-> 422]
ServerError(op) == [op |-> op, status |-> 500]

\* ------------------------------------------------------------ properties -
\* POST /api/properties
create_property(payload) ==
    /\ UNCHANGED <<db, broker, booking, seeders, seeded>>
    /\ IF ~ValidProperty(payload)
       THEN /\ resp' = ValidationError("create_property")
            /\ UNCHANGED <<property, nextId, created>>
       ELSE \/ /\ resp' = ServerError("create_property")
               /\ UNCHANGED <<property, nextId, created>>
            \/ /\ db = "connected"
               /\ property' = Append(property,
                                     StoredDocument(ParseProperty(payload), nextId))
               /\ nextId' = nextId + 1
               /\ resp' = Ok("create_property", [id |-> ObjectIdStr(nextId)])
               /\ created' = created \cup
                     {[id |-> ObjectIdStr(nextId), payload |-> ParseProperty(payload)]}

\* The filter search_properties builds from a PropertyQuery.
PriceCond(query) ==
    (IF Has(query, "min_price") THEN "gte" :> query["min_price"] ELSE <<>>)
    @@ (IF Has(query, "max_price") THEN "lte" :> query["max_price"] ELSE <<>>)

BuildFilterAlwaysPrice(query) ==
    (IF Has(query, "city") /\ query["city"] # <<>>
     THEN "city" :> query["city"] ELSE <<>>)
    @@ (IF Has(query, "q") /\ query["q"] # <<>> THEN "or" :> query["q"] ELSE <<>>)
    @@ ("price" :> PriceCond(query))
    @@ (IF Has(query, "bedrooms")
        THEN "bedrooms" :> [gte |-> query["bedrooms"]] ELSE <<>>)

BuildFilter(query) ==
    (IF Has(query, "city") /\ query["city"] # <<>>
     THEN "city" :> query["city"] ELSE <<>>)
    @@ (IF Has(query, "q") /\ query["q"] # <<>> THEN "or" :> query["q"] ELSE <<>>)
    @@ (IF DOMAIN PriceCond(query) # {} THEN "price" :> PriceCond(query) ELSE <<>>)
    @@ (IF Has(query, "bedrooms")
        THEN "bedrooms" :> [gte |-> query["bedrooms"]] ELSE <<>>)

\* POST /api/properties/search
search_properties_unlimited(query) ==
    /\ UNCHANGED <<db, store, seeders, created, seeded>>
    /\ \/ resp' = ServerError("search")
       \/ /\ db = "connected"
          /\ resp' = Ok("search",
                        Items(get_documents(property, BuildFilter(query), NoLimit)))

search_properties(query) ==
    /\ UNCHANGED <<db, store, seeders, created, seeded>>
    /\ \/ resp' = ServerError("search")
       \/ /\ db = "connected"
          /\ resp' = Ok("search",
                        Items(get_documents(property, BuildFilter(query), SearchLimit)))

\* GET /api/properties/sample, a store operation at a time:
\* existing = get_documents("property", {}, limit=1); if not existing: ...
seed_sample_properties_check_unconditional(c) ==
    /\ pc[c] = "idle"
    /\ UNCHANGED <<db, store, created, seeded>>
    /\ \/ /\ resp' = ServerError("seed")
          /\ UNCHANGED seeders
       \/ /\ db = "connected"
          /\ pc' = [pc EXCEPT ![c] = "insert"]
          /\ idx' = [idx EXCEPT ![c] = 1]
          /\ UNCHANGED resp

seed_sample_properties_check(c) ==
    /\ pc[c] = "idle"
    /\ UNCHANGED <<db, store, created, seeded>>
    /\ \/ /\ resp' = ServerError("seed")
          /\ UNCHANGED seeders
       \/ /\ db = "connected"
          /\ IF get_documents(property, <<>>, 1) = <<>>
             THEN /\ pc' = [pc EXCEPT ![c] = "insert"]
                  /\ idx' = [idx EXCEPT ![c] = 1]
             ELSE /\ pc' = [pc EXCEPT ![c] = "list"]
                  /\ UNCHANGED idx
          /\ UNCHANGED resp

\* for s in samples: create_document("property", s)
seed_sample_properties_insert(c) ==
    /\ pc[c] = "insert"
    /\ UNCHANGED <<db, broker, booking, created>>
    /\ \/ /\ resp' = ServerError("seed")
          /\ pc' = [pc EXCEPT ![c] = "idle"]
          /\ idx' = [idx EXCEPT ![c] = 1]
          /\ UNCHANGED <<property, nextId, seeded>>
       \/ /\ property' = Append(property, StoredDocument(Samples[idx[c]], nextId))
          /\ nextId' = nextId + 1
          /\ seeded' = seeded \cup {[id |-> nextId, by |-> c]}
          /\ IF idx[c] < Len(Samples)
             THEN /\ idx' = [idx EXCEPT ![c] = idx[c] + 1]
                  /\ UNCHANGED pc
             ELSE /\ idx' = [idx EXCEPT ![c] = 1]
                  /\ pc' = [pc EXCEPT ![c] = "list"]
          /\ UNCHANGED resp

\* docs = get_documents("property"); return {"items": docs}
seed_sample_properties_return(c) ==
    /\ pc[c] = "list"
    /\ UNCHANGED <<db, store, idx, created, seeded>>
    /\ pc' = [pc EXCEPT ![c] = "idle"]
    /\ \/ resp' = ServerError("seed")
       \/ resp' = Ok("seed", Items(get_documents(property, <<>>, NoLimit)))

\* ---------------------------------------------------- brokers, bookings -
\* POST /api/brokers
create_broker(payload) ==
    /\ UNCHANGED <<db, property, booking, seeders, created, seeded>>
    /\ IF ~ValidBroker(payload)
       THEN /\ resp' = ValidationError("create_broker")
            /\ UNCHANGED <<broker, nextId>>
       ELSE \/ /\ resp' = ServerError("create_broker")
               /\ UNCHANGED <<broker, nextId>>
            \/ /\ db = "connected"
               /\ broker' = Append(broker, StoredDocument(ParseBroker(payload), nextId))
               /\ nextId' = nextId + 1
               /\ resp' = Ok("create_broker", [id |-> ObjectIdStr(nextId)])

\* GET /api/brokers
list_brokers ==
    /\ UNCHANGED <<db, store, seeders, created, seeded>>
    /\ \/ resp' = ServerError("list_brokers")
       \/ /\ db = "connected"
          /\ resp' = Ok("list_brokers", Items(get_documents(broker, <<>>, BrokerLimit)))

\* POST /api/bookings
SameSlot(a, b) ==
    /\ a["property_id"] = b["property_id"]
    /\ a["preferred_date"] = b["preferred_date"]
    /\ a["preferred_time"] = b["preferred_time"]

create_booking_checks_conflicts(payload) ==
    /\ UNCHANGED <<db, property, broker, seeders, created, seeded>>
    /\ IF ~ValidBooking(payload)
       THEN /\ resp' = ValidationError("create_booking")
            /\ UNCHANGED <<booking, nextId>>
       ELSE \/ /\ resp' = ServerError("create_booking")
               /\ UNCHANGED <<booking, nextId>>
            \/ /\ db = "connected"
               /\ booking' = Append(booking, StoredDocument(payload, nextId))
               /\ nextId' = nextId + 1
               /\ resp' = Ok("create_booking",
                             [id |-> ObjectIdStr(nextId),
                              status |-> IF \E k \in 1..Len(booking) :
                                                SameSlot(booking[k], payload)
                                         THEN "pending" ELSE "confirmed"])

create_booking(payload) ==
    /\ UNCHANGED <<db, property, broker, seeders, created, seeded>>
    /\ IF ~ValidBooking(payload)
       THEN /\ resp' = ValidationError("create_booking")
            /\ UNCHANGED <<booking, nextId>>
       ELSE \/ /\ resp' = ServerError("create_booking")
               /\ UNCHANGED <<booking, nextId>>
            \/ /\ db = "connected"
               /\ booking' = Append(booking, StoredDocument(payload, nextId))
               /\ nextId' = nextId + 1
               /\ resp' = Ok("create_booking",
                             [id |-> ObjectIdStr(nextId), status |-> "confirmed"])

\* ---------------------------------------------------------- diagnostics -
DbNotAvailable ==
    <<"(cross mark)", " ", "N", "o", "t", " ", "A", "v", "a", "i", "l",
      "a", "b", "l", "e">>

DbConnectedWorking ==
    <<"(check mark)", " ", "C", "o", "n", "n", "e", "c", "t", "e", "d",
      " ", "&", " ", "W", "o", "r", "k", "i", "n", "g">>

DbConnectedButError ==
    <<"(warning sign)", "(variation selector)", " ", "C", "o", "n", "n",
      "e", "c", "t", "e", "d", " ", "b", "u", "t", " ", "E", "r", "r", "o",
      "r", ":", " ">>

DbNotInitialized ==
    <<"(warning sign)", "(variation selector)", " ", "A", "v", "a", "i",
      "l", "a", "b", "l", "e", " ", "b", "u", "t", " ", "n", "o", "t", " ",
      "i", "n", "i", "t", "i", "a", "l", "i", "z", "e", "d">>

DbError ==
    <<"(cross mark)", " ", "E", "r", "r", "o", "r", ":", " ">>

\* What the environment hands to test_database: str(e) of an exception of
\* n characters, and the n collection names list_collection_names() returns.
ErrText(n) == [i \in 1..n |-> Digits[(i % 10) + 1]]
CollectionNames(n) == [i \in 1..n |-> ObjectIdStr(i)]

\* The response dictionary, as first assigned.
InitialResponse ==
    [ backend |-> "(check mark) Running",
      database |-> DbNotAvailable,
      connection_status |-> "Not Connected",
      collections |-> <<>> ]

\* The assignments made once db is seen to be not None.
ConnectedResponse(urlSet, named) ==
    [ backend |-> "(check mark) Running",
      database |-> DbConnectedWorking,
      database_url |-> IF urlSet THEN "(check mark) Set" ELSE "(cross mark) Not Set",
      database_name |-> IF named THEN "realestate" ELSE "(check mark) Connected",
      connection_status |-> "Connected",
      collections |-> <<>> ]

\* response["collections"] = collections[:10]
Listed(names) == Truncate(names, CollectionsLimit)

\* f"... Error: {str(e)[:50]}"
ErrorStatusUncut(prefix, text) == prefix \o text
ErrorStatus(prefix, text) == prefix \o Truncate(text, ErrTextLimit)

\* GET /test
test_database ==
    /\ UNCHANGED <<db, store, seeders, created, seeded>>
    /\ \/ /\ db = "absent"
          /\ resp' = Ok("test", [InitialResponse EXCEPT !.database = DbNotInitialized])
       \/ /\ db = "connected"
          /\ \E urlSet \in BOOLEAN, named \in BOOLEAN :
                \/ \E n \in 0..MaxColls :
                      resp' = Ok("test",
                                 [ConnectedResponse(urlSet, named) EXCEPT
                                     !.collections = Listed(CollectionNames(n))])
                \/ \E n \in 0..MaxErrLen :
                      resp' = Ok("test",
                                 [ConnectedResponse(urlSet, named) EXCEPT
                                     !.database =
                                         ErrorStatus(DbConnectedButError, ErrText(n))])
       \/ /\ db = "connected"
          /\ \E urlSet \in BOOLEAN, n \in 0..MaxErrLen :
                resp' = Ok("test",
                   [ backend |-> "(check mark) Running",
                     database |-> DbError \o Truncate(ErrText(n), OuterErrTextLimit),
                     database_url |->
                         IF urlSet THEN "(check mark) Set" ELSE "(cross mark) Not Set",
                     connection_status |-> "Not Connected",
                     collections |-> <<>> ])

\* ------------------------------------------------------ specifications ---
\* A collection that earlier requests filled with n documents.
Prefilled(body, first, n) == [i \in 1..n |-> StoredDocument(body, first + i - 1)]

Prefills == {0, SearchLimit}

Idle ==
    /\ pc = [c \in Callers |-> "idle"]
    /\ idx = [c \in Callers |-> 1]
    /\ resp = [op |-> "none", status |-> 0]
    /\ created = {}
    /\ seeded = {}

\* Seed calls that run one after another: a call starts when none is running.
NoSeedRunning == \A c \in Callers : pc[c] = "idle"

seed_sample_properties_check_in_turn(c) == NoSeedRunning /\ seed_sample_properties_check(c)

\* The whole API, seed calls in turn.
Init ==
    /\ db \in {"absent", "connected"}
    /\ \E n \in (IF db = "connected" THEN Prefills ELSE {0}) :
          /\ property = Prefilled(ParseProperty(Loft), 1, n)
          /\ broker = Prefilled(ParseBroker(Agent), SearchLimit + 1, n)
    /\ booking = <<>>
    /\ nextId = FirstId
    /\ Idle

ApiQueries == {NoFilter, [bedrooms |-> 3], [city |-> <<"y", "o", "r", "k">>]}

Next ==
    \/ /\ NewDocuments < MaxNewDocuments
       /\ \E payload \in {Villa} \cup InvalidPropertyBodies : create_property(payload)
    \/ \E query \in ApiQueries : search_properties(query)
    \/ \E c \in Callers : seed_sample_properties_check_in_turn(c)
    \/ /\ NewDocuments < MaxNewDocuments
       /\ \E c \in Callers : seed_sample_properties_insert(c)
    \/ \E c \in Callers : seed_sample_properties_return(c)
    \/ /\ NewDocuments < MaxNewDocuments
       /\ \E payload \in BrokerBodies : create_broker(payload)
    \/ list_brokers
    \/ /\ NewDocuments < MaxNewDocuments
       /\ \E payload \in BookingBodies : create_booking(payload)

Spec == Init /\ [][Next]_vars

\* The property endpoints alone, over every query, seed calls in turn.
InitSearch ==
    /\ db \in {"absent", "connected"}
    /\ \E n \in (IF db = "connected" THEN Prefills ELSE {0}) :
          property = Prefilled(ParseProperty(Loft), 1, n)
    /\ broker = <<>>
    /\ booking = <<>>
    /\ nextId = FirstId
    /\ Idle

NextSearch ==
    \/ /\ NewDocuments < MaxNewListings
       /\ \E payload \in PropertyBodies : create_property(payload)
    \/ \E query \in Queries : search_properties(query)
    \/ \E c \in Callers : seed_sample_properties_check_in_turn(c)
    \/ /\ NewDocuments < MaxNewListings
       /\ \E c \in Callers : seed_sample_properties_insert(c)
    \/ \E c \in Callers : seed_sample_properties_return(c)

SpecSearch == InitSearch /\ [][NextSearch]_vars

\* Two callers of the seed endpoint at once, on an empty property collection.
InitSeed ==
    /\ db = "connected"
    /\ property = <<>>
    /\ broker = <<>>
    /\ booking = <<>>
    /\ nextId = FirstId
    /\ Idle

NextSeed ==
    \/ \E c \in Callers : seed_sample_properties_check(c)
    \/ /\ NewDocuments < MaxSeedInserts
       /\ \E c \in Callers : seed_sample_properties_insert(c)
    \/ \E c \in Callers : seed_sample_properties_return(c)

SpecSeed == InitSeed /\ [][NextSeed]_vars

\* The diagnostics endpoint, in every state of the store handle.
InitDiag ==
    /\ db \in {"absent", "connected"}
    /\ property = <<>>
    /\ broker = <<>>
    /\ booking = <<>>
    /\ nextId = FirstId
    /\ Idle

NextDiag == test_database

SpecDiag == InitDiag /\ [][NextDiag]_vars

\* --------------------------------------------------------------- claims -
\* The cap the listing endpoints are said to respect.
ListingCap == 50
\* The longest error text the diagnostics are said to include.
ErrTextCap == 50
\* The most collection names the diagnostics are said to list.
CollectionsCap == 10

ItemsOf(r) == r["body"]["items"]
IsListing(r, ops) == r["op"] \in ops /\ r["status"] = 200

\* C1: when two callers run the sample-seed endpoint concurrently on an empty
\* property collection, at most 2 seeded properties exist once both calls
\* have returned.
C1_ConcurrentSeedAtMostTwo == NoSeedRunning => Cardinality(seeded) <= 2

\* C2: when seed calls run one after another, whatever the store holds at
\* first, there are never more than 2 seeded properties, and a seed call that
\* finds at least one property document goes on to insert nothing.
C2_SequentialSeedAtMostTwo ==
    /\ [](Cardinality(seeded) <= 2)
    /\ [][\A c \in Callers :
             (seed_sample_properties_check(c) /\ property # <<>>) => pc'[c] # "insert"]_vars

\* A caller that found the collection holding both samples, and skipped.
C2_Witness ==
    \E c \in Callers :
        /\ pc[c] = "list"
        /\ Cardinality(seeded) = 2
        /\ \A s \in seeded : s.by # c

\* C3: search and broker listing return at most 50 items, for every store
\* size and every query.
C3_ListingsCapped ==
    IsListing(resp, {"search", "list_brokers"}) => Len(ItemsOf(resp)) <= ListingCap

\* A search of more than 50 stored properties that returned exactly 50.
C3_Witness ==
    /\ IsListing(resp, {"search"})
    /\ Len(ItemsOf(resp)) = ListingCap
    /\ Len(property) > ListingCap

\* C4: what a property must satisfy for a query, as the claim states it:
\* plain containment ignoring case, inclusive price bounds, a minimum of
\* bedrooms; a field absent from the query restricts nothing.
Satisfies(doc, query) ==
    /\ Has(query, "city") => ContainsIgnoreCase(doc["city"], query["city"])
    /\ Has(query, "q") =>
          \/ ContainsIgnoreCase(doc["title"], query["q"])
          \/ Has(doc, "description") /\ ContainsIgnoreCase(doc["description"], query["q"])
          \/ \E k \in 1..Len(doc["tags"]) : ContainsIgnoreCase(doc["tags"][k], query["q"])
    /\ Has(query, "min_price") => doc["price"] >= query["min_price"]
    /\ Has(query, "max_price") => doc["price"] <= query["max_price"]
    /\ Has(query, "bedrooms") => doc["bedrooms"] >= query["bedrooms"]

SearchAnswersQuery(query, items) ==
    /\ \A i \in 1..Len(items) : Satisfies(items[i], query)
    /\ LET hits == {k \in 1..Len(property) : Satisfies(property[k], query)}
       IN  Cardinality(hits) <= ListingCap =>
              \A k \in hits :
                 \E i \in 1..Len(items) : items[i]["id"] = ObjectIdStr(property[k]["_id"])

\* C4: every property a search returns satisfies all the conditions present
\* in the query at once, and when at most 50 stored properties satisfy them,
\* every one of them is returned.
C4_SearchMatchesAllConditions ==
    [][\A query \in Queries :
          (resp'["op"] = "search" /\ resp'["status"] = 200 /\ search_properties(query))
             => SearchAnswersQuery(query, ItemsOf(resp'))]_vars

\* C5: the item of a created property: the id create returned, not empty,
\* and the payload's field values.
Found(cr, items) ==
    \E i \in 1..Len(items) :
        /\ items[i]["id"] = cr.id
        /\ cr.id # <<>>
        /\ \A f \in DOMAIN cr.payload : Has(items[i], f) /\ items[i][f] = cr.payload[f]

\* C5 as stated: after a successful create, whatever the store held before,
\* a later search with no filter returns the created property.
C5_CreateThenSearchFindsIt ==
    [][(resp'["op"] = "search" /\ resp'["status"] = 200 /\ search_properties(NoFilter))
          => \A cr \in created : Found(cr, ItemsOf(resp'))]_vars

\* C5 amended: the same, for a search that runs while the property
\* collection holds at most 50 documents.
C5_CreateThenSearchFindsItWithinCap ==
    [][(/\ resp'["op"] = "search"
        /\ resp'["status"] = 200
        /\ search_properties(NoFilter)
        /\ Len(property) <= ListingCap)
          => \A cr \in created : Found(cr, ItemsOf(resp'))]_vars

\* A search answer that lists the whole collection, created properties included.
C5_Witness ==
    /\ IsListing(resp, {"search"})
    /\ created # {}
    /\ Len(ItemsOf(resp)) = Len(property)
    /\ \A cr \in created : Found(cr, ItemsOf(resp))

\* C6: the stored documents have pairwise different identifiers, and every
\* item of a search, seed or broker listing is a stored document with its
\* identifier as a string under id and with no _id field.
AllDocuments == property \o broker \o booking

ExposesDocument(item, doc) ==
    /\ item["id"] = ObjectIdStr(doc["_id"])
    /\ DOMAIN item = (DOMAIN doc \ {"_id"}) \cup {"id"}
    /\ \A f \in DOMAIN doc \ {"_id"} : item[f] = doc[f]

C6_IdentifiersUniqueAndExposedAsId ==
    /\ Cardinality({AllDocuments[i]["_id"] : i \in 1..Len(AllDocuments)})
          = Len(AllDocuments)
    /\ IsListing(resp, {"search", "seed", "list_brokers"}) =>
          \A i \in 1..Len(ItemsOf(resp)) :
             /\ ~Has(ItemsOf(resp)[i], "_id")
             /\ \E k \in 1..Len(AllDocuments) :
                   ExposesDocument(ItemsOf(resp)[i], AllDocuments[k])

\* A seed answer that lists both samples.
C6_Witness ==
    /\ IsListing(resp, {"seed"})
    /\ Len(ItemsOf(resp)) = Len(Samples)
    /\ Cardinality(seeded) = Len(Samples)

\* C7: the bodies the claim calls invalid.
Negative(b, f) == Has(b, f) /\ b[f] < 0

ViolatesPropertySchema(b) ==
    \/ ~(PropertyRequired \subseteq DOMAIN b)
    \/ \E f \in {"price", "bedrooms", "bathrooms", "area_sqft"} : Negative(b, f)

ViolatesBrokerSchema(b) ==
    \/ ~Has(b, "name")
    \/ Negative(b, "reviews_count")
    \/ Has(b, "rating") /\ (b["rating"] < 0 \/ b["rating"] > 50)
    \/ Has(b, "email") /\ ~ValidEmail(b["email"])

ViolatesBookingSchema(b) ==
    \/ ~(BookingRequired \subseteq DOMAIN b)
    \/ ~ValidEmail(b["email"])

RejectedUnchanged ==
    /\ resp'["status"] = 422
    /\ UNCHANGED <<property, broker, booking>>

\* C7: a create request whose body violates a schema constraint is answered
\* with the validation error (422, not the storage error 500) and leaves
\* every collection unchanged.
C7_InvalidBodyRejectedWithoutInsert ==
    [][/\ \A b \in PropertyBodies :
             (ViolatesPropertySchema(b) /\ create_property(b)) => RejectedUnchanged
       /\ \A b \in BrokerBodies :
             (ViolatesBrokerSchema(b) /\ create_broker(b)) => RejectedUnchanged
       /\ \A b \in BookingBodies :
             (ViolatesBookingSchema(b) /\ create_booking(b)) => RejectedUnchanged]_vars

\* A rejected property body, with documents in the store.
C7_Witness ==
    /\ resp["op"] = "create_property"
    /\ resp["status"] = 422
    /\ property # <<>>
    /\ broker # <<>>

ConfirmedWithId ==
    /\ resp'["status"] = 200
    /\ resp'["body"]["status"] = "confirmed"
    /\ resp'["body"]["id"] # <<>>

\* C8 as stated: a booking with a valid email and all required fields always
\* returns an id with status "confirmed".
C8_ValidBookingAlwaysConfirmed ==
    [][\A b \in BookingBodies :
          (~ViolatesBookingSchema(b) /\ create_booking(b)) => ConfirmedWithId]_vars

\* C8 amended: such a booking returns an id with status "confirmed", whatever
\* bookings exist and whether or not the property does, unless the store
\* fails, which is answered with the server error and inserts nothing.
C8_ValidBookingConfirmedUnlessStoreFails ==
    [][\A b \in BookingBodies :
          (~ViolatesBookingSchema(b) /\ create_booking(b)) =>
             \/ ConfirmedWithId /\ Len(booking') = Len(booking) + 1
             \/ resp'["status"] = 500 /\ UNCHANGED booking]_vars

\* A second booking of the same slot of a property that does not exist,
\* confirmed.
C8_Witness ==
    /\ resp["op"] = "create_booking"
    /\ resp["status"] = 200
    /\ resp["body"]["status"] = "confirmed"
    /\ Len(booking) = 2
    /\ SameSlot(booking[1], booking[2])
    /\ property = <<>>

\* C9: the diagnostics endpoint always answers with a body; a failure shows
\* only in the database status string, whose error text is at most 50
\* characters; at most 10 collection names are listed.
StartsWith(text, prefix) ==
    Len(text) >= Len(prefix) /\ SubSeq(text, 1, Len(prefix)) = prefix

C9_DiagnosticsNeverRaise ==
    resp["op"] = "test" =>
        /\ resp["status"] = 200
        /\ {"backend", "database", "connection_status", "collections"}
              \subseteq DOMAIN resp["body"]
        /\ resp["body"]["backend"] = "(check mark) Running"
        /\ Len(resp["body"]["collections"]) <= CollectionsCap
        /\ \/ resp["body"]["database"] \in {DbConnectedWorking, DbNotInitialized}
           \/ \E prefix \in {DbConnectedButError, DbError} :
                 /\ StartsWith(resp["body"]["database"], prefix)
                 /\ Len(resp["body"]["database"]) - Len(prefix) <= ErrTextCap
        /\ StartsWith(resp["body"]["database"], DbConnectedButError) =>
              \E urlSet \in BOOLEAN, named \in BOOLEAN :
                 [resp["body"] EXCEPT !.database = DbConnectedWorking]
                    = ConnectedResponse(urlSet, named)

\* Failing introspection whose error text was cut to 50 characters.
C9_Witness ==
    /\ resp["op"] = "test"
    /\ StartsWith(resp["body"]["database"], DbConnectedButError)
    /\ Len(resp["body"]["database"]) = Len(DbConnectedButError) + ErrTextCap
    /\ resp["body"]["connection_status"] = "Connected"

\* C10: after any sequence of seed calls in turn, each of which may end in a
\* storage error at any step, the collection holds none or both of the two
\* samples, never exactly one.
C10_SeedAllOrNothing == NoSeedRunning => Cardinality(seeded) \in {0, Len(Samples)}

=============================================================================
